---- MODULE Spec2Model ----
(***************************************************************************)
(* A model of the two scripts of the repository:                           *)
(*   scripts/apply-tilix-colorscheme.py  (convert, patch_alaconf_colors,   *)
(*                                        main)                            *)
(*   scripts/your_brand/rebranding.py    (main, revert_changes,            *)
(*                                        replace_in_files)                *)
(* Text is a sequence of one-character strings, so that splitting,         *)
(* joining, stripping and prefix tests are computed character by           *)
(* character as the Python code computes them.                             *)
(***************************************************************************)
EXTENDS Integers, Sequences, FiniteSets, TLC

VARIABLES
    tool,      \* which entry point this run of the model exercises
    pc,        \* position inside patch_alaconf_colors
    fs,        \* the three paths of the patcher: dest, tmp, bak
    colors,    \* the colors argument of patch_alaconf_colors
    ac_raw,    \* the text read from the destination
    lines,     \* the retained lines
    ops,       \* filesystem operations of the current patcher call, in order
    ins,       \* destination content at the start of each patcher call
    outs,      \* destination content at the end of each completed call
    mpc,       \* position inside main of apply-tilix-colorscheme.py
    argc,      \* len(argv)
    scheme,    \* the parsed tilix scheme
    bpc,       \* position inside rebranding.py
    new_arg,   \* args.new
    revert,    \* args.revert
    brand,     \* args.brand: "" (not given), "exists" or "missing"
    cwd_ok,    \* the working directory is named your_brand
    src,       \* where the brand's asset files lie
    miss,      \* the asset the brand lacks, 0 for none
    active,    \* the asset files at their paths in the source tree
    archive,   \* the asset files under alacritty_brand/
    brand_name_txt,  \* brand_name.txt
    lic,       \* the license files under ../../alacritty
    subst,     \* the files replace_in_files has rewritten, in order
    bops,      \* filesystem changes of the rebranding tool, in order
    status,    \* exit status of the last invocation
    bidx,      \* position in the list of assets
    runs       \* invocations of rebranding.py so far

brandVars == <<bpc, new_arg, revert, brand, cwd_ok, src, miss, active, archive,
               brand_name_txt, lic, subst, bops, status, bidx, runs>>

tilixVars == <<pc, fs, colors, ac_raw, lines, ops, ins, outs, mpc, argc, scheme>>

vars == <<tool, tilixVars, brandVars>>

-----------------------------------------------------------------------------
(* Bounds of the model *)

\* longest enumerated configuration document, in lines
MaxLines == 3
\* number of consecutive patcher calls on the same destination
MaxRuns == 2
\* number of consecutive invocations of rebranding.py on the same tree
MaxInvocations == 2
\* longest enumerated palette
MaxPalette == 18

-----------------------------------------------------------------------------
(* Characters and text *)

\* the characters of the model in code point order
Alphabet ==
    << "\n", "\f", " ", "#", "'", "-",
       "0", "1", "2", "3", "4", "5", "6", "7", "8", "9", ":",
       "A", "B", "C", "D", "E", "F", "G", "H", "I", "J", "K", "L", "M",
       "N", "O", "P", "Q", "R", "S", "T", "U", "V", "W", "X", "Y", "Z", "_",
       "a", "b", "c", "d", "e", "f", "g", "h", "i", "j", "k", "l", "m",
       "n", "o", "p", "q", "r", "s", "t", "u", "v", "w", "x", "y", "z",
       "{", "}" >>

Upper == { "A", "B", "C", "D", "E", "F", "G", "H", "I", "J", "K", "L", "M",
           "N", "O", "P", "Q", "R", "S", "T", "U", "V", "W", "X", "Y", "Z" }

Lower == { "a", "b", "c", "d", "e", "f", "g", "h", "i", "j", "k", "l", "m",
           "n", "o", "p", "q", "r", "s", "t", "u", "v", "w", "x", "y", "z" }

Digits == { "0", "1", "2", "3", "4", "5", "6", "7", "8", "9" }

\* str.isalpha on one character
isalpha(c) == c \in Upper \cup Lower

\* the line boundaries of str.splitlines ("\f" stands for the boundaries
\* other than "\n" that survive a text-mode read)
LineBoundaries == { "\n", "\f" }

RECURSIVE SplitAcc(_, _, _)
SplitAcc(s, cur, acc) ==
    IF s = <<>> THEN (IF cur = <<>> THEN acc ELSE Append(acc, cur))
    ELSE IF Head(s) \in LineBoundaries
         THEN SplitAcc(Tail(s), <<>>, Append(acc, cur))
         ELSE SplitAcc(Tail(s), Append(cur, Head(s)), acc)

\* str.splitlines(): no trailing empty line after a final boundary
splitlines(s) == SplitAcc(s, <<>>, <<>>)

RECURSIVE join(_, _)
\* sep.join(ls)
join(sep, ls) ==
    IF ls = <<>> THEN <<>>
    ELSE IF Len(ls) = 1 THEN ls[1]
    ELSE ls[1] \o sep \o join(sep, Tail(ls))

\* str.startswith(prefix)
startswith(s, prefix) ==
    /\ Len(s) >= Len(prefix)
    /\ SubSeq(s, 1, Len(prefix)) = prefix

RECURSIVE lstrip(_, _)
lstrip(s, c) == IF s # <<>> /\ Head(s) = c THEN lstrip(Tail(s), c) ELSE s

RECURSIVE rstrip(_, _)
rstrip(s, c) ==
    IF s # <<>> /\ s[Len(s)] = c THEN rstrip(SubSeq(s, 1, Len(s) - 1), c) ELSE s

\* str.strip(c): every leading and every trailing c is removed
strip(s, c) == rstrip(lstrip(s, c), c)

CharRank(c) == CHOOSE i \in 1..Len(Alphabet) : Alphabet[i] = c

RECURSIVE TextLess(_, _)
\* a < b on Python strings
TextLess(a, b) ==
    IF b = <<>> THEN FALSE
    ELSE IF a = <<>> THEN TRUE
    ELSE IF Head(a) = Head(b) THEN TextLess(Tail(a), Tail(b))
    ELSE CharRank(Head(a)) < CharRank(Head(b))

-----------------------------------------------------------------------------
(* YAML values and yaml.safe_dump (block style, sorted keys) *)

Str(t) == [kind |-> "str", text |-> t, items |-> <<>>]
Map(its) == [kind |-> "map", text |-> <<>>, items |-> its]
\* a Python object the safe representer rejects
Obj == [kind |-> "obj", text |-> <<>>, items |-> <<>>]

\* the value stored under key k of a mapping node
Get(m, k) ==
    LET i == CHOOSE i \in 1..Len(m.items) : m.items[i][1] = k IN m.items[i][2]

HasKey(m, k) == \E i \in 1..Len(m.items) : m.items[i][1] = k

RECURSIVE InsertSorted(_, _)
InsertSorted(p, sorted) ==
    IF sorted = <<>> THEN <<p>>
    ELSE IF TextLess(p[1], Head(sorted)[1]) THEN <<p>> \o sorted
    ELSE <<Head(sorted)>> \o InsertSorted(p, Tail(sorted))

RECURSIVE SortItems(_)
\* sorted(mapping.items())
SortItems(items) ==
    IF items = <<>> THEN <<>>
    ELSE InsertSorted(Head(items), SortItems(Tail(items)))

RECURSIVE Representable(_)
Representable(node) ==
    /\ node.kind # "obj"
    /\ \A i \in 1..Len(node.items) : Representable(node.items[i][2])

HexChars == Digits \cup { "a", "b", "c", "d", "e", "f",
                           "A", "B", "C", "D", "E", "F", "_" }

\* a plain scalar the resolver would read back as a number or as null
ResolvesNonStr(t) ==
    \/ t = <<>>
    \/ /\ Len(t) >= 3
       /\ t[1] = "0" /\ t[2] = "x"
       /\ \A i \in 3..Len(t) : t[i] \in HexChars

Scalar(t) == IF ResolvesNonStr(t) THEN <<"'">> \o t \o <<"'">> ELSE t

Spaces(n) == [i \in 1..n |-> " "]

RECURSIVE EmitMap(_, _)
EmitMap(items, indent) ==
    IF items = <<>> THEN <<>>
    ELSE LET k == Head(items)[1]
             v == Head(items)[2]
             first ==
                 IF v.kind = "str"
                 THEN Spaces(indent) \o k \o <<":", " ">> \o Scalar(v.text) \o <<"\n">>
                 ELSE IF v.items = <<>>
                 THEN Spaces(indent) \o k \o <<":", " ", "{", "}", "\n">>
                 ELSE Spaces(indent) \o k \o <<":", "\n">>
                      \o EmitMap(SortItems(v.items), indent + 2)
         IN first \o EmitMap(Tail(items), indent)

\* the text yaml.safe_dump(data, fh) writes for a mapping
safe_dump(data) == EmitMap(SortItems(data.items), 0)

-----------------------------------------------------------------------------
(* patch_alaconf_colors: the line scan *)

\* the key of dict(colors=colors)
ColorsKey == <<"c", "o", "l", "o", "r", "s">>

\* the literal of line.startswith('colors:')
KeyLine == <<"c", "o", "l", "o", "r", "s", ":">>

\* variant: any non-empty line ends the skipped block
NextSkippingAnyLine(skipping, line) ==
    IF skipping
    THEN line = <<>>
    ELSE startswith(line, KeyLine)

\* variant: only the key line itself is skipped
NextSkippingKeyOnly(skipping, line) ==
    IF skipping
    THEN FALSE
    ELSE startswith(line, KeyLine)

\* the value of `skipping` after the if/elif on a line
NextSkipping(skipping, line) ==
    IF skipping
    THEN ~(line # <<>> /\ isalpha(line[1]))
    ELSE startswith(line, KeyLine)

\* variant: every blank line after the first retained line is dropped
CollapsedAny(line, kept) ==
    /\ line = <<>>
    /\ kept # <<>>

\* variant: blank lines are never dropped
CollapsedNever(line, kept) == FALSE

\* `not line and lines and not lines[-1]`: the line is a repeated blank
Collapsed(line, kept) ==
    /\ line = <<>>
    /\ kept # <<>>
    /\ kept[Len(kept)] = <<>>

RECURSIVE Scan(_, _, _, _)
\* the for loop; trace records, per input line, the flag after the line
\* and whether the line was appended
Scan(rest, skipping, kept, trace) ==
    IF rest = <<>> THEN [lines |-> kept, trace |-> trace]
    ELSE LET line == Head(rest)
             sk == NextSkipping(skipping, line)
             keep == ~sk /\ ~Collapsed(line, kept)
         IN Scan(Tail(rest), sk,
                 IF keep THEN Append(kept, line) ELSE kept,
                 Append(trace, [skipping |-> sk, kept |-> keep]))

ScanLines(raw) == Scan(splitlines(raw), FALSE, <<>>, <<>>).lines

ScanTrace(raw) == Scan(splitlines(raw), FALSE, <<>>, <<>>).trace

-----------------------------------------------------------------------------
(* patch_alaconf_colors: the files *)

alaconf_fn == "dest"
\* variant: the new content is written over the destination itself
temp_fn_inplace == "dest"

temp_fn == "tmp"
backup_fn == "bak"

Absent == [exists |-> FALSE, data |-> <<>>]
File(d) == [exists |-> TRUE, data |-> d]

\* entry of patch_alaconf_colors(c) with the destination as it is
PatchEnter(c) ==
    /\ pc' = "read"
    /\ colors' = c
    /\ ac_raw' = <<>>
    /\ lines' = <<>>
    /\ ops' = <<>>
    /\ ins' = Append(ins, fs[alaconf_fn].data)
    /\ UNCHANGED <<fs, outs>>

\* dict(colors=colors)
Document(c) == Map(<< <<ColorsKey, c>> >>)

\* with open(alaconf_fn, 'r') as fh: ac_raw = fh.read()
ReadConf ==
    /\ pc = "read"
    /\ \E ok \in BOOLEAN :
         IF ok /\ fs[alaconf_fn].exists
         THEN /\ ac_raw' = fs[alaconf_fn].data
              /\ pc' = "scan"
         ELSE /\ pc' = "failed"
              /\ UNCHANGED ac_raw
    /\ ops' = Append(ops, "read")
    /\ UNCHANGED <<brandVars, tool, fs, colors, lines, ins, outs, mpc, argc, scheme>>

\* the for loop over ac_raw.splitlines()
ScanConf ==
    /\ pc = "scan"
    /\ lines' = ScanLines(ac_raw)
    /\ pc' = "open"
    /\ UNCHANGED <<brandVars, tool, fs, colors, ac_raw, ops, ins, outs, mpc, argc, scheme>>

\* open(temp_fn, 'w'): creates or truncates
OpenTmp ==
    /\ pc = "open"
    /\ \E ok \in BOOLEAN :
         IF ok
         THEN /\ fs' = [fs EXCEPT ![temp_fn] = File(<<>>)]
              /\ pc' = "write"
         ELSE /\ pc' = "failed"
              /\ UNCHANGED fs
    /\ ops' = Append(ops, "open_tmp")
    /\ UNCHANGED <<brandVars, tool, colors, ac_raw, lines, ins, outs, mpc, argc, scheme>>

\* fh.write('\n'.join(lines)); fh.write('\n')
WriteBody ==
    /\ pc = "write"
    /\ fs' = [fs EXCEPT ![temp_fn] =
                 File(@.data \o join(<<"\n">>, lines) \o <<"\n">>)]
    /\ pc' = "dump"
    /\ ops' = Append(ops, "write_tmp")
    /\ UNCHANGED <<brandVars, tool, colors, ac_raw, lines, ins, outs, mpc, argc, scheme>>

\* yaml.safe_dump(dict(colors=colors), fh), then the with block closes fh;
\* an unrepresentable value raises before anything is emitted
DumpColors ==
    /\ pc = "dump"
    /\ LET doc == Document(colors)
       IN IF Representable(doc)
          THEN /\ fs' = [fs EXCEPT ![temp_fn] = File(@.data \o safe_dump(doc))]
               /\ ops' = ops \o <<"dump_tmp", "close_tmp">>
               /\ pc' = "copy"
          ELSE /\ ops' = ops \o <<"close_tmp">>
               /\ pc' = "failed"
               /\ UNCHANGED fs
    /\ UNCHANGED <<brandVars, tool, colors, ac_raw, lines, ins, outs, mpc, argc, scheme>>

\* variant: the backup is taken of the temporary file
CopyBackupOfTemp ==
    /\ pc = "copy"
    /\ fs' = [fs EXCEPT ![backup_fn] = File(fs[temp_fn].data)]
    /\ pc' = "rename"
    /\ ops' = Append(ops, "copyfile")
    /\ UNCHANGED <<brandVars, tool, colors, ac_raw, lines, ins, outs, mpc, argc, scheme>>

\* shutil.copyfile(alaconf_fn, backup_fn); a failed copy leaves the backup
\* as it was or truncated
CopyBackup ==
    /\ pc = "copy"
    /\ \/ /\ fs' = [fs EXCEPT ![backup_fn] = File(fs[alaconf_fn].data)]
          /\ pc' = "rename"
       \/ /\ \E b \in {fs[backup_fn], File(<<>>)} :
                fs' = [fs EXCEPT ![backup_fn] = b]
          /\ pc' = "failed"
    /\ ops' = Append(ops, "copyfile")
    /\ UNCHANGED <<brandVars, tool, colors, ac_raw, lines, ins, outs, mpc, argc, scheme>>

\* os.rename(temp_fn, alaconf_fn)
RenameTmp ==
    /\ pc = "rename"
    /\ fs' = [fs EXCEPT ![alaconf_fn] = fs[temp_fn], ![temp_fn] = Absent]
    /\ pc' = "done"
    /\ ops' = Append(ops, "rename")
    /\ outs' = Append(outs, fs[temp_fn].data)
    /\ UNCHANGED <<brandVars, tool, colors, ac_raw, lines, ins, mpc, argc, scheme>>

\* the patcher is called again on its own result with the same colors
Rerun ==
    /\ tool = "patch"
    /\ pc = "done"
    /\ Len(ins) < MaxRuns
    /\ PatchEnter(colors)
    /\ UNCHANGED <<brandVars, tool, mpc, argc, scheme>>

-----------------------------------------------------------------------------
(* convert *)

\* a YAML list of strings
List(ts) == [kind |-> "seq", text |-> <<>>, items |-> [i \in 1..Len(ts) |-> Str(ts[i])]]

\* an uncaught exception (TypeError, AttributeError, KeyError)
Raised == [kind |-> "error", text |-> <<>>, items |-> <<>>]

K_palette == <<"p", "a", "l", "e", "t", "t", "e">>
K_background_color == <<"b", "a", "c", "k", "g", "r", "o", "u", "n", "d", "-", "c", "o", "l", "o", "r">>
K_foreground_color == <<"f", "o", "r", "e", "g", "r", "o", "u", "n", "d", "-", "c", "o", "l", "o", "r">>
K_cursor_background_color == <<"c", "u", "r", "s", "o", "r", "-", "b", "a", "c", "k", "g", "r", "o", "u", "n", "d", "-", "c", "o", "l", "o", "r">>
K_cursor_foreground_color == <<"c", "u", "r", "s", "o", "r", "-", "f", "o", "r", "e", "g", "r", "o", "u", "n", "d", "-", "c", "o", "l", "o", "r">>
K_primary == <<"p", "r", "i", "m", "a", "r", "y">>
K_cursor == <<"c", "u", "r", "s", "o", "r">>
K_normal == <<"n", "o", "r", "m", "a", "l">>
K_bright == <<"b", "r", "i", "g", "h", "t">>
K_background == <<"b", "a", "c", "k", "g", "r", "o", "u", "n", "d">>
K_foreground == <<"f", "o", "r", "e", "g", "r", "o", "u", "n", "d">>
K_text == <<"t", "e", "x", "t">>

\* the field names of the Palette namedtuple, in order
PaletteFields ==
    << <<"b", "l", "a", "c", "k">>,
       <<"r", "e", "d">>,
       <<"g", "r", "e", "e", "n">>,
       <<"y", "e", "l", "l", "o", "w">>,
       <<"b", "l", "u", "e">>,
       <<"m", "a", "g", "e", "n", "t", "a">>,
       <<"c", "y", "a", "n">>,
       <<"w", "h", "i", "t", "e">> >>

\* '0x%s' % arg.strip('#') for each argument
fixup_hex_color(args) ==
    [i \in 1..Len(args) |-> <<"0", "x">> \o strip(args[i], "#")]

\* variant: surplus arguments are dropped
PaletteTruncating(args) ==
    IF Len(args) >= Len(PaletteFields)
    THEN Map([i \in 1..Len(PaletteFields) |-> <<PaletteFields[i], Str(args[i])>>])
    ELSE Raised

\* dict(Palette(*args)._asdict()): the namedtuple takes exactly one
\* positional argument per field
Palette(args) ==
    IF Len(args) = Len(PaletteFields)
    THEN Map([i \in 1..Len(PaletteFields) |-> <<PaletteFields[i], Str(args[i])>>])
    ELSE Raised

\* dict(zip(names, values))
ZipDict(names, values) ==
    Map([i \in 1..(IF Len(names) < Len(values) THEN Len(names) ELSE Len(values))
            |-> <<names[i], Str(values[i])>>])

\* the texts of a YAML list
Texts(node) == [i \in 1..Len(node.items) |-> node.items[i].text]

convert(tilix_scheme) ==
    IF ~HasKey(tilix_scheme, K_palette) THEN Raised
    ELSE LET palette == fixup_hex_color(Texts(Get(tilix_scheme, K_palette)))
             n == Len(palette)
             pal_normal == Palette(SubSeq(palette, 1, IF n < 8 THEN n ELSE 8))
             pal_bold == Palette(SubSeq(palette, 9, n))
             aux == << K_background_color, K_foreground_color,
                       K_cursor_background_color, K_cursor_foreground_color >>
         IN IF pal_normal.kind = "error" \/ pal_bold.kind = "error" THEN Raised
            ELSE IF \E i \in 1..Len(aux) : ~HasKey(tilix_scheme, aux[i]) THEN Raised
            ELSE Map(<<
                <<K_primary, ZipDict(<<K_background, K_foreground>>,
                    fixup_hex_color(<<Get(tilix_scheme, K_background_color).text,
                                      Get(tilix_scheme, K_foreground_color).text>>))>>,
                <<K_cursor, ZipDict(<<K_text, K_cursor>>,
                    fixup_hex_color(<<Get(tilix_scheme, K_cursor_background_color).text,
                                      Get(tilix_scheme, K_cursor_foreground_color).text>>))>>,
                <<K_normal, pal_normal>>,
                <<K_bright, pal_bold>> >>)

-----------------------------------------------------------------------------
(* main of apply-tilix-colorscheme.py *)

\* if len(argv) != 2: usage, sys.exit(1)
MainArgs ==
    /\ tool = "tilix"
    /\ mpc = "start"
    /\ mpc' = (IF argc # 2 THEN "exit1" ELSE "slurp")
    /\ UNCHANGED <<brandVars, tool, pc, fs, colors, ac_raw, lines, ops, ins, outs, argc, scheme>>

\* tilix_scheme = slurp_yaml(fn); the file may be unreadable
MainSlurp ==
    /\ tool = "tilix"
    /\ mpc = "slurp"
    /\ \E ok \in BOOLEAN : mpc' = (IF ok THEN "convert" ELSE "crashed")
    /\ UNCHANGED <<brandVars, tool, pc, fs, colors, ac_raw, lines, ops, ins, outs, argc, scheme>>

\* colors = convert(tilix_scheme); patch_alaconf_colors(colors)
MainConvert ==
    /\ tool = "tilix"
    /\ mpc = "convert"
    /\ LET c == convert(scheme)
       IN IF c.kind = "error"
          THEN /\ mpc' = "crashed"
               /\ UNCHANGED <<pc, fs, colors, ac_raw, lines, ops, ins, outs>>
          ELSE /\ mpc' = "patch"
               /\ PatchEnter(c)
    /\ UNCHANGED <<brandVars, tool, argc, scheme>>

\* patch_alaconf_colors returns or raises
MainReturn ==
    /\ tool = "tilix"
    /\ mpc = "patch"
    /\ pc \in {"done", "failed"}
    /\ mpc' = (IF pc = "done" THEN "exit0" ELSE "crashed")
    /\ UNCHANGED <<brandVars, tool, pc, fs, colors, ac_raw, lines, ops, ins, outs, argc, scheme>>

-----------------------------------------------------------------------------
(* rebranding.py *)

\* the relocated assets, in the order main handles them
AssetNames ==
    << "README.md",
       "org.alacritty.Alacritty.appdata.xml",
       "logo/alacritty-simple.svg",
       "logo/alacritty-term.svg",
       "logo/alacritty-term+scanlines.svg",
       "logo/compat/alacritty-simple.svg",
       "logo/compat/alacritty-term.png",
       "logo/compat/alacritty-term.svg",
       "logo/compat/alacritty-term+scanlines.svg",
       "logo/compat/alacritty-term+scanlines.png",
       "alacritty.ico" >>

Assets == 1..Len(AssetNames)

\* the order in which revert_changes handles the assets
RevertOrder == <<2, 1, 3, 4, 5, 6, 8, 9, 7, 10, 11>>

NoAsset == [tag |-> "none", of |-> 0]
Original(a) == [tag |-> "original", of |-> a]
BrandLocal(a) == [tag |-> "brand_local", of |-> a]
BrandFolder(a) == [tag |-> "brand_folder", of |-> a]

\* os.path.exists(<name>) in the current directory
LocalHas(a) ==
    /\ a # miss
    /\ \/ src = "local"
       \/ src = "mixed" /\ a % 2 = 1

\* os.path.exists(args.brand + "/" + <name>)
FolderHas(a) ==
    /\ brand = "exists"
    /\ a # miss
    /\ \/ src = "folder"
       \/ src = "mixed" /\ a % 2 = 0

\* the path shutil.copy writes the brand file of asset a to: the asset's own
\* path, but for logo/compat/alacritty-term.png taken from the brand folder,
\* which is copied to logo_compat_term_svg
CopyTarget(a, fromLocal) ==
    IF AssetNames[a] = "logo/compat/alacritty-term.png" /\ ~fromLocal
    THEN CHOOSE t \in Assets : AssetNames[t] = "logo/compat/alacritty-term.svg"
    ELSE a

ALACRITTY == <<"a", "l", "a", "c", "r", "i", "t", "t", "y">>

\* re.match(r'^[a-zA-Z0-9]+$', s): `$` also matches before a final newline
ReMatchAlnum(s) ==
    LET body == IF s # <<>> /\ s[Len(s)] = "\n" THEN SubSeq(s, 1, Len(s) - 1) ELSE s
    IN /\ body # <<>>
       /\ \A i \in 1..Len(body) : body[i] \in Upper \cup Lower \cup Digits

\* str(args.new).lower == "alacritty": a bound method compared with a string
LowerIsAlacritty(s) == FALSE

Exit(code) ==
    /\ bpc' = "exited"
    /\ status' = code

\* current_dir = os.getcwd().split("/")[-1]; if current_dir != "your_brand"
BrandCwd ==
    /\ tool = "rebrand"
    /\ bpc = "cwd"
    /\ IF cwd_ok THEN bpc' = "folder" /\ UNCHANGED status ELSE Exit("1")
    /\ UNCHANGED <<tool, tilixVars, new_arg, revert, brand, cwd_ok, src, miss, active,
                   archive, brand_name_txt, lic, subst, bops, bidx, runs>>

\* if args.brand != "" and not os.path.exists(args.brand); if args.revert
BrandFolderCheck ==
    /\ tool = "rebrand"
    /\ bpc = "folder"
    /\ IF brand = "missing" THEN Exit("1")
       ELSE /\ bpc' = (IF revert THEN "revert_name" ELSE "validate")
            /\ UNCHANGED status
    /\ UNCHANGED <<tool, tilixVars, new_arg, revert, brand, cwd_ok, src, miss, active,
                   archive, brand_name_txt, lic, subst, bops, bidx, runs>>

\* if not re.match(r'^[a-zA-Z0-9]+$', args.new); re.match raises on None
BrandValidate ==
    /\ tool = "rebrand"
    /\ bpc = "validate"
    /\ IF new_arg.given /\ ReMatchAlnum(new_arg.text)
       THEN bpc' = "same" /\ UNCHANGED status
       ELSE Exit("1")
    /\ UNCHANGED <<tool, tilixVars, new_arg, revert, brand, cwd_ok, src, miss, active,
                   archive, brand_name_txt, lic, subst, bops, bidx, runs>>

\* if str(args.new).lower == "alacritty"
BrandSameName ==
    /\ tool = "rebrand"
    /\ bpc = "same"
    /\ IF LowerIsAlacritty(new_arg.text)
       THEN Exit("1")
       ELSE bpc' = "write_name" /\ UNCHANGED status
    /\ UNCHANGED <<tool, tilixVars, new_arg, revert, brand, cwd_ok, src, miss, active,
                   archive, brand_name_txt, lic, subst, bops, bidx, runs>>

\* os.system(f"echo '{args.new}' > brand_name.txt")
BrandWriteName ==
    /\ tool = "rebrand"
    /\ bpc = "write_name"
    /\ brand_name_txt' = File(new_arg.text \o <<"\n">>)
    /\ bops' = Append(bops, "write brand_name.txt")
    /\ bpc' = "welcome"
    /\ UNCHANGED <<tool, tilixVars, new_arg, revert, brand, cwd_ok, src, miss, active,
                   archive, lic, subst, status, bidx, runs>>

\* if os.path.exists("WELCOME_MESSAGE"): welcome = f.readlines();
\* welcome.join("\n") raises AttributeError, a list has no join
BrandWelcome ==
    /\ tool = "rebrand"
    /\ bpc = "welcome"
    /\ \E exists \in BOOLEAN :
         IF exists THEN Exit("1") /\ UNCHANGED bidx
         ELSE bpc' = "assets" /\ bidx' = 1 /\ UNCHANGED status
    /\ UNCHANGED <<tool, tilixVars, new_arg, revert, brand, cwd_ok, src, miss, active,
                   archive, brand_name_txt, lic, subst, bops, runs>>

\* one "Check if file exists" block of main: exit when the brand has the
\* file in neither place; else remove the archived copy if any, move the
\* tree's file to the archive and copy the brand's file into the tree
\* (the directories under alacritty_brand/ are taken to exist)
BrandAsset ==
    /\ tool = "rebrand"
    /\ bpc = "assets"
    /\ LET a == bidx
           fromLocal == LocalHas(a)
           removed == IF archive[a] # NoAsset THEN <<"remove">> ELSE <<>>
       IN IF ~LocalHas(a) /\ ~FolderHas(a)
          THEN /\ Exit("1")
               /\ UNCHANGED <<active, archive, bops, bidx>>
          ELSE IF active[a] = NoAsset
          THEN \* shutil.move raises: nothing to move
               /\ archive' = [archive EXCEPT ![a] = NoAsset]
               /\ bops' = bops \o removed
               /\ Exit("1")
               /\ UNCHANGED <<active, bidx>>
          ELSE /\ archive' = [archive EXCEPT ![a] = active[a]]
               /\ active' = [[active EXCEPT ![a] = NoAsset] EXCEPT
                               ![CopyTarget(a, fromLocal)] =
                                   IF fromLocal THEN BrandLocal(a) ELSE BrandFolder(a)]
               /\ bops' = bops \o removed \o <<"move", "copy">>
               /\ IF bidx = Len(AssetNames)
                  THEN bpc' = "license" /\ UNCHANGED bidx
                  ELSE bpc' = "assets" /\ bidx' = bidx + 1
               /\ UNCHANGED status
    /\ UNCHANGED <<tool, tilixVars, new_arg, revert, brand, cwd_ok, src, miss,
                   brand_name_txt, lic, subst, runs>>

\* if os.path.exists("LICENSE") ... elif os.path.exists(args.brand + "/LICENSE")
BrandLicense ==
    /\ tool = "rebrand"
    /\ bpc = "license"
    /\ \E exists \in BOOLEAN :
         IF ~exists
         THEN /\ bpc' = "replace"
              /\ UNCHANGED <<lic, bops, status>>
         ELSE IF ~lic.apache
         THEN \* shutil.move raises: LICENSE-APACHE is not there
              /\ Exit("1")
              /\ UNCHANGED <<lic, bops>>
         ELSE /\ lic' = [apache |-> FALSE, apache_alacritty |-> TRUE, license |-> TRUE]
              /\ bops' = bops \o <<"move", "move">>
              /\ bpc' = "replace"
              /\ UNCHANGED status
    /\ UNCHANGED <<tool, tilixVars, new_arg, revert, brand, cwd_ok, src, miss, active,
                   archive, brand_name_txt, subst, bidx, runs>>

\* the files rewritten by the replace_in_files calls that end main
\* (welcome_message is "" whenever this point is reached)
MainRewrites ==
    << "ipc.rs", "logging.rs",
       "Alacritty.desktop", "Info.plist", "alacritty.wxs",
       "Alacritty.desktop", "Info.plist", "ipc.rs", "logging.rs", "panic.rs",
       "window.rs", "alacritty.wxs",
       "cli.rs", "ipc.rs", "logging.rs", "logging.rs", "mod.rs", "Cargo.toml" >>

\* the files rewritten by the replace_in_files calls that end revert_changes
RevertRewrites ==
    << "cli.rs", "ipc.rs", "logging.rs", "logging.rs", "mod.rs", "Cargo.toml" >>

\* replace_in_files(...) of main, then main returns
BrandReplace ==
    /\ tool = "rebrand"
    /\ bpc = "replace"
    /\ subst' = subst \o MainRewrites
    /\ bops' = bops \o [i \in 1..Len(MainRewrites) |-> "write"]
    /\ Exit("0")
    /\ UNCHANGED <<tool, tilixVars, new_arg, revert, brand, cwd_ok, src, miss, active,
                   archive, brand_name_txt, lic, bidx, runs>>

\* revert_changes: if os.path.exists("brand_name.txt") ... else exit
RevertReadName ==
    /\ tool = "rebrand"
    /\ bpc = "revert_name"
    /\ IF brand_name_txt.exists
       THEN bpc' = "revert_license" /\ UNCHANGED status
       ELSE Exit("1")
    /\ UNCHANGED <<tool, tilixVars, new_arg, revert, brand, cwd_ok, src, miss, active,
                   archive, brand_name_txt, lic, subst, bops, bidx, runs>>

\* if os.path.exists("LICENSE-APACHE-ALACRITTY"): looked up in the current
\* directory, moved under ../../alacritty
RevertLicense ==
    /\ tool = "rebrand"
    /\ bpc = "revert_license"
    /\ \E exists \in BOOLEAN :
         IF ~exists
         THEN /\ bpc' = "revert_assets" /\ bidx' = 1
              /\ UNCHANGED <<lic, bops, status>>
         ELSE IF ~lic.apache_alacritty
         THEN /\ Exit("1")
              /\ UNCHANGED <<lic, bops, bidx>>
         ELSE /\ lic' = [lic EXCEPT !.apache = TRUE, !.apache_alacritty = FALSE]
              /\ bops' = Append(bops, "move")
              /\ bpc' = "revert_assets" /\ bidx' = 1
              /\ UNCHANGED status
    /\ UNCHANGED <<tool, tilixVars, new_arg, revert, brand, cwd_ok, src, miss, active,
                   archive, brand_name_txt, subst, runs>>

\* one "Check if file exists" block of revert_changes: exit when the tree's
\* file is missing; else remove it and move the archived file back
RevertAsset ==
    /\ tool = "rebrand"
    /\ bpc = "revert_assets"
    /\ LET a == RevertOrder[bidx]
       IN IF active[a] = NoAsset
          THEN /\ Exit("1")
               /\ UNCHANGED <<active, archive, bops, bidx>>
          ELSE IF archive[a] = NoAsset
          THEN \* shutil.move raises after os.remove
               /\ active' = [active EXCEPT ![a] = NoAsset]
               /\ bops' = Append(bops, "remove")
               /\ Exit("1")
               /\ UNCHANGED <<archive, bidx>>
          ELSE /\ active' = [active EXCEPT ![a] = archive[a]]
               /\ archive' = [archive EXCEPT ![a] = NoAsset]
               /\ bops' = bops \o <<"remove", "move">>
               /\ IF bidx = Len(RevertOrder)
                  THEN bpc' = "revert_welcome" /\ UNCHANGED bidx
                  ELSE bpc' = "revert_assets" /\ bidx' = bidx + 1
               /\ UNCHANGED status
    /\ UNCHANGED <<tool, tilixVars, new_arg, revert, brand, cwd_ok, src, miss,
                   brand_name_txt, lic, subst, runs>>

\* WELCOME_MESSAGE in revert_changes: welcome.join("\n") raises
RevertWelcome ==
    /\ tool = "rebrand"
    /\ bpc = "revert_welcome"
    /\ \E exists \in BOOLEAN :
         IF exists THEN Exit("1")
         ELSE bpc' = "revert_replace" /\ UNCHANGED status
    /\ UNCHANGED <<tool, tilixVars, new_arg, revert, brand, cwd_ok, src, miss, active,
                   archive, brand_name_txt, lic, subst, bops, bidx, runs>>

\* replace_in_files(...) of revert_changes, then sys.exit(1) in main
RevertReplace ==
    /\ tool = "rebrand"
    /\ bpc = "revert_replace"
    /\ subst' = subst \o RevertRewrites
    /\ bops' = bops \o [i \in 1..Len(RevertRewrites) |-> "write"]
    /\ Exit("1")
    /\ UNCHANGED <<tool, tilixVars, new_arg, revert, brand, cwd_ok, src, miss, active,
                   archive, brand_name_txt, lic, bidx, runs>>

\* the tool is run again, with --revert, on the tree the last run left
Invoke ==
    /\ tool = "rebrand"
    /\ bpc = "exited"
    /\ runs < MaxInvocations
    /\ runs' = runs + 1
    /\ bpc' = "cwd"
    /\ revert' = TRUE
    /\ new_arg' = [given |-> FALSE, text |-> <<>>]
    /\ status' = "none"
    /\ bops' = <<>>
    /\ bidx' = 0
    /\ UNCHANGED <<tool, tilixVars, brand, cwd_ok, src, miss, active, archive,
                   brand_name_txt, lic, subst>>

-----------------------------------------------------------------------------
(* Inputs *)

T_a == <<"a", ":", " ", "1">>
T_b == <<"b", ":", " ", "2">>
T_x == <<" ", " ", "x", ":", " ", "1">>
T_comment == <<"#", " ", "c">>
T_ff == <<"d", "\f", "e">>

DocLines == { <<>>, T_a, KeyLine, T_x, T_comment, T_ff }

\* a document of the given lines, with or without a final newline
Raw(ls, final) == join(<<"\n">>, ls) \o (IF final THEN <<"\n">> ELSE <<>>)

ScenarioLines == << T_a, KeyLine, T_x, <<>>, <<>>, T_b >>

Docs ==
    { Raw(ls, final) :
        ls \in (UNION { [1..n -> DocLines] : n \in 0..MaxLines }) \cup {ScenarioLines},
        final \in BOOLEAN }

\* {g: {k: v}}
ScenarioColors == Map(<< << <<"g">>, Map(<< << <<"k">>, Str(<<"v">>) >> >>) >> >>)

\* {primary: {background: '0x1d'}, normal: {}}
SmallColors ==
    Map(<< << <<"p", "r", "i", "m", "a", "r", "y">>, Map(<< << <<"b", "a", "c", "k", "g", "r", "o", "u", "n", "d">>, Str(<<"0", "x", "1", "d">>) >> >>) >>,
           << <<"n", "o", "r", "m", "a", "l">>, Map(<<>>) >> >>)

PatchColors == { ScenarioColors, SmallColors, Map(<< << <<"g">>, Obj >> >>) }

MainIdle == mpc = "idle" /\ argc = 0 /\ scheme = Map(<<>>)

BrandIdle ==
    /\ bpc = "idle" /\ new_arg = [given |-> FALSE, text |-> <<>>] /\ revert = FALSE
    /\ brand = "" /\ cwd_ok = FALSE /\ src = "local" /\ miss = 0
    /\ active = [a \in Assets |-> NoAsset] /\ archive = [a \in Assets |-> NoAsset]
    /\ brand_name_txt = Absent
    /\ lic = [apache |-> FALSE, apache_alacritty |-> FALSE, license |-> FALSE]
    /\ subst = <<>> /\ bops = <<>> /\ status = "none" /\ bidx = 0 /\ runs = 0

TilixIdle ==
    /\ MainIdle
    /\ pc = "idle" /\ colors = Str(<<>>) /\ ac_raw = <<>> /\ lines = <<>>
    /\ ops = <<>> /\ ins = <<>> /\ outs = <<>>
    /\ fs = [p \in {alaconf_fn, temp_fn, backup_fn} |-> Absent]

InitPatch ==
    /\ tool = "patch"
    /\ BrandIdle
    /\ MainIdle
    /\ \E raw \in Docs, c \in PatchColors :
         /\ fs = [p \in {alaconf_fn, temp_fn, backup_fn} |->
                    IF p = alaconf_fn THEN File(raw) ELSE Absent]
         /\ colors = c
         /\ ins = <<raw>>
    /\ pc = "read" /\ ac_raw = <<>> /\ lines = <<>> /\ ops = <<>> /\ outs = <<>>

HexSeq == << "0", "1", "2", "3", "4", "5", "6", "7",
            "8", "9", "a", "b", "c", "d", "e", "f" >>

\* distinct well-formed tokens, one per palette position
Tok(i) == <<"#", HexSeq[(i \div 16) + 1], HexSeq[(i % 16) + 1]>>

\* tokens with a '#' elsewhere than in front, with several, with none,
\* and with mixed case
OddTokens ==
    { <<"#", "a", "B", "#">>, <<"#", "#", "f">>, <<"a", "B">>,
      <<"#">>, <<"#", "A", "#", "b">> }

Palettes ==
    { [i \in 1..n |-> Tok(i)] : n \in 0..MaxPalette }
    \cup { [i \in 1..16 |-> IF i = p THEN w ELSE Tok(i)] :
             p \in 1..16, w \in OddTokens }

AuxColors ==
    { << <<"#", "0", "d">>, <<"#", "F", "e">>, <<"#", "1", "C">>, <<"#", "c", "1">> >>,
      << <<"#", "a", "B", "#">>, <<"#", "#", "f">>, <<"#", "1", "C">>, <<"#", "c", "1">> >> }

SchemeOf(pal, aux) ==
    Map(<< <<K_background_color, Str(aux[1])>>,
           <<K_foreground_color, Str(aux[2])>>,
           <<K_cursor_background_color, Str(aux[3])>>,
           <<K_cursor_foreground_color, Str(aux[4])>>,
           <<K_palette, List(pal)>> >>)

\* a scheme without its foreground-color
SchemeNoForeground(pal, aux) ==
    Map(<< <<K_background_color, Str(aux[1])>>,
           <<K_cursor_background_color, Str(aux[3])>>,
           <<K_cursor_foreground_color, Str(aux[4])>>,
           <<K_palette, List(pal)>> >>)

Schemes ==
    { SchemeOf(pal, aux) : pal \in Palettes, aux \in AuxColors }
    \cup { SchemeNoForeground([i \in 1..16 |-> Tok(i)], aux) : aux \in AuxColors }
    \cup { Map(<<>>) }

MainDocs == { Raw(<<T_a, KeyLine, T_x>>, TRUE), Raw(<<T_comment>>, FALSE) }

InitTilix ==
    /\ tool = "tilix"
    /\ BrandIdle
    /\ mpc = "start"
    /\ argc \in 1..3
    /\ scheme \in Schemes
    /\ \E raw \in MainDocs :
         fs = [p \in {alaconf_fn, temp_fn, backup_fn} |->
                 IF p = alaconf_fn THEN File(raw) ELSE Absent]
    /\ pc = "idle" /\ colors = Str(<<>>) /\ ac_raw = <<>> /\ lines = <<>>
    /\ ops = <<>> /\ ins = <<>> /\ outs = <<>>

\* values of --new
Names ==
    { <<"a", "b">>, <<"A", "9">>, <<"a", " ", "b">>, <<"a", "-", "b">>, <<"a", "b", "\n">>,
      <<"a", "\n", "b">>, <<"a", "b", "\n", "\n">>, <<>>,
      ALACRITTY,
      <<"A", "l", "a", "c", "r", "i", "t", "t", "y">> }

InitRebrand ==
    /\ tool = "rebrand"
    /\ TilixIdle
    /\ bpc = "cwd"
    /\ new_arg \in { [given |-> TRUE, text |-> t] : t \in Names }
                  \cup { [given |-> FALSE, text |-> <<>>] }
    /\ revert \in BOOLEAN
    /\ brand \in {"", "exists", "missing"}
    /\ cwd_ok \in BOOLEAN
    /\ src \in {"local", "folder", "mixed"}
    /\ miss \in 0..Len(AssetNames)
    /\ active = [a \in Assets |-> Original(a)]
    /\ archive = [a \in Assets |-> NoAsset]
    /\ brand_name_txt = Absent
    /\ lic = [apache |-> TRUE, apache_alacritty |-> FALSE, license |-> FALSE]
    /\ subst = <<>> /\ bops = <<>> /\ status = "none" /\ bidx = 0 /\ runs = 1

Init == InitPatch \/ InitTilix \/ InitRebrand

Next ==
    \/ ReadConf
    \/ ScanConf
    \/ OpenTmp
    \/ WriteBody
    \/ DumpColors
    \/ CopyBackup
    \/ RenameTmp
    \/ Rerun
    \/ MainArgs
    \/ MainSlurp
    \/ MainConvert
    \/ MainReturn
    \/ BrandCwd
    \/ BrandFolderCheck
    \/ BrandValidate
    \/ BrandSameName
    \/ BrandWriteName
    \/ BrandWelcome
    \/ BrandAsset
    \/ BrandLicense
    \/ BrandReplace
    \/ RevertReadName
    \/ RevertLicense
    \/ RevertAsset
    \/ RevertWelcome
    \/ RevertReplace
    \/ Invoke

Spec == Init /\ [][Next]_vars

-----------------------------------------------------------------------------
(* Properties of patch_alaconf_colors *)

\* the number of lines of a document that start with `colors:`
KeyCount(raw) ==
    LET ls == splitlines(raw)
    IN Cardinality({ i \in 1..Len(ls) : startswith(ls[i], KeyLine) })

RECURSIVE PickFrom(_, _, _)
\* the subsequence of ls at the indices of keep, from index i on
PickFrom(ls, keep, i) ==
    IF i > Len(ls) THEN <<>>
    ELSE (IF i \in keep THEN <<ls[i]>> ELSE <<>>) \o PickFrom(ls, keep, i + 1)

\* ls with every run of empty lines reduced to its first line
CollapseRuns(ls) ==
    PickFrom(ls, { i \in 1..Len(ls) : ls[i] # <<>> \/ i = 1 \/ ls[i - 1] # <<>> }, 1)

\* the complete content of a patched file
NewContent == join(<<"\n">>, lines) \o <<"\n">> \o safe_dump(Document(colors))

AfterScan == { "open", "write", "dump", "copy", "rename", "done" }

\* C1 (as amended): for a document in which no line starts with `colors:`,
\* the patched file is the document's lines with every run of consecutive
\* empty lines reduced to one, joined by newlines, then a single newline
\* character ending the last line, then the serialized colors block. No
\* blank line is inserted before the block.
C1_NoKeyCollapsedThenBlock ==
    \A i \in 1..Len(outs) :
        KeyCount(ins[i]) = 0 =>
            outs[i] = join(<<"\n">>, CollapseRuns(splitlines(ins[i])))
                      \o <<"\n">> \o safe_dump(Document(colors))

\* C1 witness: a patched document without the key and with two adjacent
\* blank lines
C1_Witness ==
    /\ Len(outs) >= 1
    /\ ins[1] = Raw(<<T_a, <<>>, <<>>>>, TRUE)
    /\ KeyCount(ins[1]) = 0

\* C1 (as stated): original content unchanged, then exactly one blank line,
\* then the serialized block
C1_Original ==
    \A i \in 1..Len(outs) :
        KeyCount(ins[i]) = 0 =>
            splitlines(outs[i]) =
                splitlines(ins[i]) \o << <<>> >> \o splitlines(safe_dump(Document(colors)))

\* C2: for a document with exactly one line starting with `colors:`, patching
\* the patched file again with the same colors yields the same file.
C2_Idempotent ==
    \A i \in 1..Len(outs) :
        (i + 1 <= Len(outs) /\ KeyCount(ins[i]) = 1) => outs[i + 1] = outs[i]

\* C2 witness: two completed calls on a document with one key line, blank
\* lines around the block
C2_Witness ==
    /\ Len(outs) >= 2
    /\ ins[1] = Raw(<< <<>>, KeyLine, <<>> >>, TRUE)
    /\ KeyCount(ins[1]) = 1

\* the number of retained lines among the first k input lines
KeptUpTo(tr, k) == Cardinality({ m \in 1..k : tr[m].kept })

\* C3: the retained lines never hold two adjacent empty lines; the retained
\* lines are the kept input lines in order; and of every maximal run of two
\* or more empty input lines met outside the skipped block exactly one line,
\* the first, is retained, as an empty line at its place among the retained
\* lines.
C3_BlankRunsCollapse ==
    pc \in AfterScan =>
        LET inl == splitlines(ac_raw)
            tr == ScanTrace(ac_raw)
        IN /\ \A k \in 1..(Len(lines) - 1) : ~(lines[k] = <<>> /\ lines[k + 1] = <<>>)
           /\ Len(lines) = KeptUpTo(tr, Len(inl))
           /\ \A k \in 1..Len(inl) : tr[k].kept => lines[KeptUpTo(tr, k)] = inl[k]
           /\ \A i \in 1..Len(inl), j \in 1..Len(inl) :
                ( /\ i < j
                  /\ \A k \in i..j : inl[k] = <<>> /\ ~tr[k].skipping
                  /\ (i = 1 \/ inl[i - 1] # <<>>)
                  /\ (j = Len(inl) \/ inl[j + 1] # <<>>) )
                => /\ { k \in i..j : tr[k].kept } = {i}
                   /\ lines[KeptUpTo(tr, i)] = <<>>

\* C3 witness: a scanned document with a run of two blank lines before the
\* colors block
C3_Witness ==
    /\ pc = "done"
    /\ splitlines(ac_raw) = << <<>>, <<>>, KeyLine >>

\* the output the scenario of C4 produces
ScenarioOutput ==
    << T_a, T_b, KeyLine,
       <<" ", " ", "g", ":">>,
       <<" ", " ", " ", " ", "k", ":", " ", "v">> >>

\* C4 (as amended): for the lines ["a: 1", "colors:", "  x: 1", "", "", "b: 2"]
\* and colors {g: {k: v}} the patched file is the lines "a: 1", "b: 2",
\* "colors:", "  g:", "    k: v", each ended by a newline: the old block and
\* the blank lines under it are dropped, and the new block is appended at the
\* end of the file, after "b: 2", under the key `colors`, with no blank line.
C4_ScenarioAppendsAtEnd ==
    \A final \in BOOLEAN :
        ( /\ Len(outs) >= 1
          /\ ins[1] = Raw(ScenarioLines, final)
          /\ colors = ScenarioColors )
        => outs[1] = Raw(ScenarioOutput, TRUE)

\* C4 witness: the scenario document has been patched
C4_Witness ==
    /\ Len(outs) >= 1
    /\ ins[1] = Raw(ScenarioLines, TRUE)
    /\ colors = ScenarioColors

\* C4 (as stated): the output is ["a: 1", "", "g:", "  k: v", "b: 2"]
C4_Original ==
    \A final \in BOOLEAN :
        ( /\ Len(outs) >= 1
          /\ ins[1] = Raw(ScenarioLines, final)
          /\ colors = ScenarioColors )
        => splitlines(outs[1]) =
             << T_a, <<>>, <<"g", ":">>, <<" ", " ", "k", ":", " ", "v">>, T_b >>

\* op occurs in ops before position i
Before(op, i) == \E j \in 1..(i - 1) : ops[j] = op

\* C5: the rename is the last filesystem operation of a call; when it is
\* about to happen and once it has happened the temporary file was written,
\* dumped and closed, the backup exists and holds the content the
\* destination had when the call began, and what the rename installs is the
\* complete new content.
C5_WriteCloseBackupThenRename ==
    /\ \A i \in 1..Len(ops) :
         ops[i] = "rename" =>
            /\ i = Len(ops)
            /\ pc = "done"
            /\ Before("write_tmp", i) /\ Before("dump_tmp", i)
            /\ Before("close_tmp", i) /\ Before("copyfile", i)
            /\ fs[backup_fn] = File(ins[Len(ins)])
            /\ fs[alaconf_fn] = File(NewContent)
    /\ pc = "rename" =>
            /\ ops[Len(ops)] = "copyfile"
            /\ Before("close_tmp", Len(ops))
            /\ fs[temp_fn] = File(NewContent)
            /\ fs[backup_fn] = File(ins[Len(ins)])
            /\ fs[alaconf_fn] = File(ins[Len(ins)])

\* C5 witness: a second call has renamed, so that the backup is a copy of
\* the first call's result
C5_Witness ==
    /\ Len(ins) = 2
    /\ pc = "done"
    /\ ops[Len(ops)] = "rename"
    /\ fs[backup_fn].data # ins[1]

\* C6: during a call the destination holds the content it had when the call
\* began, and after the rename the complete new content; a call that failed
\* left the destination as it was.
C6_DestinationNeverPartial ==
    Len(ins) >= 1 =>
        /\ \/ fs[alaconf_fn] = File(ins[Len(ins)])
           \/ pc = "done" /\ fs[alaconf_fn] = File(NewContent)
        /\ pc # "done" => fs[alaconf_fn] = File(ins[Len(ins)])

\* C6 witness: serialization failed after the retained lines were written
\* to the temporary file
C6_Witness ==
    /\ pc = "failed"
    /\ ops[Len(ops)] = "close_tmp"
    /\ fs[temp_fn].exists
    /\ fs[temp_fn].data # <<>>
    /\ fs[alaconf_fn].data # <<>>

-----------------------------------------------------------------------------
(* Properties of convert and main *)

\* a token with only its leading '#' removed
DropLeadingHash(t) == IF t # <<>> /\ t[1] = "#" THEN Tail(t) ELSE t

\* the tokens of the scheme's palette
SchemePalette == Texts(Get(scheme, K_palette))

\* convert has returned the value of colors
Converted == tool = "tilix" /\ mpc \in {"patch", "exit0"}

\* C7 (as stated): a 16-entry palette fills normal and bright by position,
\* background-color and foreground-color fill primary, and every color is
\* `0x` followed by the token less only its leading '#'.
C7_PositionalLeadingHashOnly ==
    (Converted /\ Len(SchemePalette) = 16) =>
        /\ \A i \in 1..8 :
             /\ Get(Get(colors, K_normal), PaletteFields[i]).text
                  = <<"0", "x">> \o DropLeadingHash(SchemePalette[i])
             /\ Get(Get(colors, K_bright), PaletteFields[i]).text
                  = <<"0", "x">> \o DropLeadingHash(SchemePalette[8 + i])
        /\ Get(Get(colors, K_primary), K_background).text
             = <<"0", "x">> \o DropLeadingHash(Get(scheme, K_background_color).text)
        /\ Get(Get(colors, K_primary), K_foreground).text
             = <<"0", "x">> \o DropLeadingHash(Get(scheme, K_foreground_color).text)

\* the palette of the scheme has a length other than 16
WrongLength == HasKey(scheme, K_palette) /\ Len(SchemePalette) # 16

\* C8: for a palette whose length is not 16 convert raises, main never
\* enters patch_alaconf_colors, and no file is created or changed.
C8_WrongLengthFails ==
    /\ [](tool = "tilix" /\ WrongLength =>
            /\ convert(scheme).kind = "error"
            /\ mpc \notin {"patch", "exit0"}
            /\ pc = "idle"
            /\ ops = <<>>
            /\ ~fs[temp_fn].exists
            /\ ~fs[backup_fn].exists)
    /\ [][tool = "tilix" /\ WrongLength => fs' = fs]_vars

\* C8 witness: main has crashed in convert on a palette of 17 entries
C8_Witness ==
    /\ tool = "tilix"
    /\ mpc = "crashed"
    /\ HasKey(scheme, K_palette)
    /\ Len(SchemePalette) = 17
    /\ pc = "idle"

-----------------------------------------------------------------------------
(* Properties of rebranding.py *)

\* str.lower()
str_lower(t) ==
    LET up == << "A", "B", "C", "D", "E", "F", "G", "H", "I", "J", "K", "L", "M",
                 "N", "O", "P", "Q", "R", "S", "T", "U", "V", "W", "X", "Y", "Z" >>
        lo == << "a", "b", "c", "d", "e", "f", "g", "h", "i", "j", "k", "l", "m",
                 "n", "o", "p", "q", "r", "s", "t", "u", "v", "w", "x", "y", "z" >>
    IN [i \in 1..Len(t) |->
          IF t[i] \in Upper THEN lo[CHOOSE k \in 1..Len(up) : up[k] = t[i]] ELSE t[i]]

\* the first invocation is a rebranding run from the your_brand directory
RebrandRun == tool = "rebrand" /\ runs = 1 /\ cwd_ok /\ ~revert /\ new_arg.given

\* the invocation has changed no file
NothingWritten ==
    /\ bops = <<>>
    /\ subst = <<>>
    /\ ~brand_name_txt.exists
    /\ active = [a \in Assets |-> Original(a)]
    /\ archive = [a \in Assets |-> NoAsset]

\* C9: run from your_brand without --revert and with a --new value that
\* holds a character other than a letter or a digit, the tool exits with
\* status 1 without having written, moved, copied or deleted a file.
C9_NonAlnumRejected ==
    ( /\ RebrandRun
      /\ \E i \in 1..Len(new_arg.text) :
            new_arg.text[i] \notin Upper \cup Lower \cup Digits )
    => /\ NothingWritten
       /\ bpc = "exited" => status = "1"

\* C10: a --new value equal to `alacritty` when lowercased is rejected: the
\* tool exits with status 1 and writes no file.
C10_SameNameRejected ==
    (RebrandRun /\ str_lower(new_arg.text) = ALACRITTY)
    => /\ NothingWritten
       /\ bpc = "exited" => status = "1"

-----------------------------------------------------------------------------
(* Properties of the line scan: key lines and lines outside the block *)

\* C11: every input line that starts with `colors:` leaves the scan in the
\* skipping state and is dropped, whatever the state before it; so the
\* patched file holds exactly one line that starts with `colors:`, the one
\* of the appended block.
C11_EveryKeyLineDropped ==
    /\ pc \in AfterScan =>
          LET inl == splitlines(ac_raw)
              tr == ScanTrace(ac_raw)
          IN /\ \A k \in 1..Len(inl) :
                   startswith(inl[k], KeyLine) => tr[k].skipping /\ ~tr[k].kept
             /\ \A k \in 1..Len(lines) : ~startswith(lines[k], KeyLine)
    /\ \A i \in 1..Len(outs) : KeyCount(outs[i]) = 1

\* the line starts with a space
Indented(line) == line # <<>> /\ line[1] = " "

\* line k lies in a colors block: it is a key line, or an indented line
\* with only indented or blank lines between it and a key line above it
InColorsBlock(inl, k) ==
    \/ startswith(inl[k], KeyLine)
    \/ /\ Indented(inl[k])
       /\ \E j \in 1..(k - 1) :
            /\ startswith(inl[j], KeyLine)
            /\ \A m \in (j + 1)..k : inl[m] = <<>> \/ Indented(inl[m])

\* C12: every non-blank input line outside the colors block (the key line
\* and the indented lines beneath it) is retained, unmodified and in order:
\* this holds in particular for a column-0 comment line that follows the
\* block.
C12_LinesOutsideBlockKept ==
    pc \in AfterScan =>
        LET inl == splitlines(ac_raw)
            tr == ScanTrace(ac_raw)
        IN \A k \in 1..Len(inl) :
              (inl[k] # <<>> /\ ~InColorsBlock(inl, k)) =>
                  /\ tr[k].kept
                  /\ lines[KeptUpTo(tr, k)] = inl[k]

-----------------------------------------------------------------------------
(* Properties of the asset relocation of the rebranding tool *)

\* asset a has been relocated: the archive holds the original and the
\* active path holds the brand's file of the same name
Relocated(a) ==
    /\ archive[a] = Original(a)
    /\ active[a] \in { BrandLocal(a), BrandFolder(a) }

\* asset a is as in the pristine tree
Untouched(a) ==
    /\ active[a] = Original(a)
    /\ archive[a] = NoAsset

\* the first run was `--new X` and went through to the end of main
RebrandSucceeded == Len(subst) >= Len(MainRewrites)

\* C13: from a pristine tree, after a successful `--new X` run every asset
\* is relocated (original in the archive, brand file of the same name at
\* the active path), and a `--revert` run that follows restores every
\* asset at its active path to its pre-rebrand content, with the brand
\* files taken from the current directory or from the --brand folder.
C13_RoundTripRestoresAssets ==
    /\ (tool = "rebrand" /\ runs = 1 /\ ~revert /\ bpc = "exited" /\ status = "0")
          => \A a \in Assets : Relocated(a)
    /\ (tool = "rebrand" /\ runs = 2 /\ bpc = "exited" /\ RebrandSucceeded /\ bidx >= 1)
          => \A a \in Assets : active[a] = Original(a)

\* main has exited at the check of asset k, found in neither place
ExitedAtMissing(k) ==
    /\ tool = "rebrand" /\ runs = 1 /\ ~revert
    /\ bpc = "exited"
    /\ bidx = k
    /\ ~LocalHas(k) /\ ~FolderHas(k)

\* C14: when the k-th asset is in neither the current directory nor the
\* --brand folder, main exits with status 1 with brand_name.txt written,
\* exactly the assets before position k relocated, no asset at or after
\* position k moved, and no text substitution applied.
C14_MissingAssetStopsInOrder ==
    \A k \in Assets :
        ExitedAtMissing(k) =>
            /\ status = "1"
            /\ brand_name_txt.exists
            /\ \A a \in 1..(k - 1) : Relocated(a)
            /\ \A a \in k..Len(AssetNames) : Untouched(a)
            /\ subst = <<>>

====
